---- MODULE Spec2Model ----
(***************************************************************************)
(* DKIM signer of src/src/sign.rs: the SignerBuilder, the Signer it builds *)
(* and the steps of Signer::sign, run by several threads on one Signer.    *)
(*                                                                         *)
(* sign.rs calls into crate::header (DKIMHeaderBuilder) and crate::hash,   *)
(* which are modelled from the written specification (sections 4.B, 4.C).  *)
(* Hashes, signatures and base64 are free constructors: a term records     *)
(* exactly the arguments the code passes to the primitive.                 *)
(***************************************************************************)
EXTENDS Integers, Sequences, FiniteSets, TLC

\* ------------------------------------------------------------------ bounds
MaxListLen == 2          \* longest list handed to with_signed_headers
TicksPerSecond == 2      \* sub-second resolution of an instant
MaxTick == 7             \* largest representable instant, in ticks

\* ------------------------------------------------------------ input sets
HeaderNames == {"From", "fRoM", "Subject"}
Keys == {<<"Rsa", "k2022">>, <<"Rsa", "kweak">>, <<"Ed25519", "ked">>}
Selectors == {"s20", "brisbane"}
Domains == {"example.com", "football.example.com"}
CanonTypes == {"Simple", "Relaxed"}
Times == {1, 4}
Clocks == {2, 5}
Durations == {0, 3, MaxTick}
Threads == {"t1", "t2"}
Emails ==
  { [id |-> "m1", body_ok |-> TRUE,  headers_ok |-> TRUE],
    [id |-> "m2", body_ok |-> FALSE, headers_ok |-> TRUE],
    [id |-> "m3", body_ok |-> TRUE,  headers_ok |-> FALSE] }

\* Option<T> and Result<T, DKIMError>
None == <<"None">>
Some(v) == <<"Some", v>>
IsSome(o) == o[1] = "Some"
Unwrap(o) == o[2]
Ok(v) == <<"Ok", v>>
Err(kind) == <<"Err", kind>>
IsOk(r) == r[1] = "Ok"
IsErr(r) == r[1] = "Err"

\* error kinds of DKIMError used by sign.rs
BuilderError == "BuilderError"
UnsupportedHashAlgorithm == "UnsupportedHashAlgorithm"
FailedToSign == "FailedToSign"
HashError == "HashError"

RECURSIVE SeqsUpTo(_, _)
SeqsUpTo(S, n) ==
  IF n = 0 THEN {<<>>}
  ELSE LET shorter == SeqsUpTo(S, n - 1)
       IN shorter \cup {Append(s, x) : s \in {q \in shorter : Len(q) = n - 1}, x \in S}

HeaderLists == SeqsUpTo(HeaderNames, MaxListLen)

\* str::to_lowercase on the header names in use
to_lowercase(s) ==
  CASE s = "From" -> "from"
    [] s = "fRoM" -> "from"
    [] s = "Subject" -> "subject"
    [] OTHER -> s

VARIABLES
  builder,        \* Option<SignerBuilder>: None once a call has consumed it
  lastCall,       \* the builder method called last and its argument
  lastResult,     \* what that call returned: Ok or Err(kind)
  lastSet,        \* the last argument given to each required setter since new()
  signer,         \* Option<Signer>
  email,          \* the caller-owned ParsedMail handed to sign
  unsetTimeRule,  \* what set_expiry does on a header builder without a time
  pc,             \* per thread: the step of Signer::sign it is about to run
  now,            \* per thread: the wall clock read in dkim_header_builder
  body_hash,      \* per thread: local of sign
  dkim_header_builder_l, \* per thread: local dkim_header_builder of sign
  hashed_header,  \* per thread: local dkim_header of compute_header_hash
  header_hash,    \* per thread: local of sign
  signature,      \* per thread: local of sign
  result          \* per thread: the value sign returned

vars == <<builder, lastCall, lastResult, lastSet, signer, email, unsetTimeRule, pc, now,
          body_hash, dkim_header_builder_l, hashed_header, header_hash,
          signature, result>>

signVars == <<email, unsetTimeRule, pc, now, body_hash, dkim_header_builder_l,
              hashed_header, header_hash, signature, result>>

\* ----------------------------------------------------------- SignerBuilder
SignerBuilder_new ==
  [ signed_headers |-> None,
    private_key |-> None,
    selector |-> None,
    signing_domain |-> None,
    expiry |-> None,
    time |-> None,
    header_canonicalization |-> "Simple",
    body_canonicalization |-> "Simple" ]

\* headers.iter().find(|h| h.to_lowercase() == "from")
find_from(headers) ==
  IF \E i \in 1..Len(headers) : to_lowercase(headers[i]) = "from"
  THEN Some(headers[CHOOSE i \in 1..Len(headers) :
                      /\ to_lowercase(headers[i]) = "from"
                      /\ \A j \in 1..(i - 1) : to_lowercase(headers[j]) # "from"])
  ELSE None

\* compares the names as written, without lowercasing them
with_signed_headers_case_sensitive(self, headers) ==
  IF ~(\E i \in 1..Len(headers) : headers[i] = "From")
  THEN Err(BuilderError)
  ELSE Ok([self EXCEPT !.signed_headers = Some(headers)])

with_signed_headers(self, headers) ==
  IF find_from(headers) = None
  THEN Err(BuilderError)
  ELSE Ok([self EXCEPT !.signed_headers = Some(headers)])

with_private_key(self, key) == [self EXCEPT !.private_key = Some(key)]
with_selector(self, value) == [self EXCEPT !.selector = Some(value)]
with_signing_domain(self, value) == [self EXCEPT !.signing_domain = Some(value)]
with_header_canonicalization(self, value) == [self EXCEPT !.header_canonicalization = value]
with_body_canonicalization(self, value) == [self EXCEPT !.body_canonicalization = value]
with_time(self, value) == [self EXCEPT !.time = Some(value)]
with_expiry(self, value) == [self EXCEPT !.expiry = Some(value)]

\* picks rsa-sha256 whatever the key variant
hash_algo_of_always_rsa(private_key) == "RsaSha256"

\* the match on the key variant in build
hash_algo_of(private_key) ==
  IF private_key[1] = "Rsa" THEN "RsaSha256" ELSE "Ed25519Sha256"

\* takes an empty selector when none was set instead of failing
build_default_selector(self) ==
  IF self.private_key = None THEN Err(BuilderError)
  ELSE IF self.signed_headers = None THEN Err(BuilderError)
  ELSE IF self.signing_domain = None THEN Err(BuilderError)
  ELSE Ok([ signed_headers |-> Unwrap(self.signed_headers),
            private_key |-> Unwrap(self.private_key),
            selector |-> IF self.selector = None THEN "" ELSE Unwrap(self.selector),
            signing_domain |-> Unwrap(self.signing_domain),
            header_canonicalization |-> self.header_canonicalization,
            body_canonicalization |-> self.body_canonicalization,
            expiry |-> self.expiry,
            hash_algo |-> hash_algo_of(Unwrap(self.private_key)),
            time |-> self.time ])

build(self) ==
  IF self.private_key = None THEN Err(BuilderError)
  ELSE IF self.signed_headers = None THEN Err(BuilderError)
  ELSE IF self.selector = None THEN Err(BuilderError)
  ELSE IF self.signing_domain = None THEN Err(BuilderError)
  ELSE Ok([ signed_headers |-> Unwrap(self.signed_headers),
            private_key |-> Unwrap(self.private_key),
            selector |-> Unwrap(self.selector),
            signing_domain |-> Unwrap(self.signing_domain),
            header_canonicalization |-> self.header_canonicalization,
            body_canonicalization |-> self.body_canonicalization,
            expiry |-> self.expiry,
            hash_algo |-> hash_algo_of(Unwrap(self.private_key)),
            time |-> self.time ])

\* ------------------------------------- crate::header::DKIMHeaderBuilder
\* (written specification, section 4.C; tag values carry their kind so that
\* a number, a text and an encoded term never compare equal)
Txt(s) == <<"txt", s>>
Num(n) == <<"num", n>>
B64(term) == <<"b64", term>>

\* canonicalization::Type::to_string
canon_to_string(type) == IF type = "Simple" THEN "simple" ELSE "relaxed"

\* OffsetDateTime::unix_timestamp: whole seconds, floor
unix_timestamp(time) == time \div TicksPerSecond

DKIMHeaderBuilder_new == [tags |-> <<>>, time |-> None]

HasTag(tags, name) == \E i \in 1..Len(tags) : tags[i][1] = name
TagValue(tags, name) == tags[CHOOSE i \in 1..Len(tags) : tags[i][1] = name][2]

\* appends; a later addition with the same name overwrites in place
add_tag(b, name, value) ==
  IF HasTag(b.tags, name)
  THEN [b EXCEPT !.tags = [i \in 1..Len(b.tags) |->
                             IF b.tags[i][1] = name THEN <<name, value>> ELSE b.tags[i]]]
  ELSE [b EXCEPT !.tags = Append(b.tags, <<name, value>>)]

\* h= : the names lowercased, colon-joined, in the order listed
set_signed_headers(b, headers) ==
  add_tag(b, "h", <<"list", [i \in 1..Len(headers) |-> to_lowercase(headers[i])]>>)

set_time(b, time) ==
  add_tag([b EXCEPT !.time = Some(time)], "t", Num(unix_timestamp(time)))

\* x= : Unix seconds of time + d; fails if the duration is not positive or
\* time + d overflows.  The specification does not say which instant a
\* builder uses that has been given none yet: `rule` is "fail" (no instant,
\* no expiry: a configuration error) or "wallclock" (the builder falls back
\* to the current instant `clock`).
set_expiry(b, duration, rule, clock) ==
  IF b.time = None /\ rule = "fail" THEN Err(BuilderError)
  ELSE LET time == IF b.time = None THEN clock ELSE Unwrap(b.time)
       IN IF duration <= 0 THEN Err(BuilderError)
          ELSE IF time + duration > MaxTick THEN Err(BuilderError)
          ELSE Ok(add_tag(b, "x", Num(unix_timestamp(time + duration))))

\* tag emission order; absent tags are skipped
TagOrder == <<"v", "a", "d", "s", "c", "bh", "h", "t", "x", "b">>

RECURSIVE render(_, _)
render(tags, i) ==
  IF i > Len(TagOrder) THEN <<>>
  ELSE IF HasTag(tags, TagOrder[i])
       THEN <<<<TagOrder[i], TagValue(tags, TagOrder[i])>>>> \o render(tags, i + 1)
       ELSE render(tags, i + 1)

\* DKIMHeaderBuilder::build: the DKIMHeader with its text form
header_build(b) == Ok([tags |-> b.tags, raw_bytes |-> render(b.tags, 1)])

get_required_tag(header, name) == TagValue(header.tags, name)

\* ------------------------------------------------------------ crate::hash
hash_name(hash_algo) == IF hash_algo = "RsaSha1" THEN "sha1" ELSE "sha256"

\* hash::compute_body_hash: base64 of the digest of the canonical body
hash_compute_body_hash(canonicalization, length, hash_algo, mail) ==
  IF ~mail.body_ok THEN Err(HashError)
  ELSE Ok(B64(<<"body-digest", hash_name(hash_algo), canonicalization, length, mail.id>>))

\* hash::compute_headers_hash: digest of the selected headers followed by
\* the DKIM-Signature header
hash_compute_headers_hash(canonicalization, signed_headers, hash_algo, dkim_header, mail) ==
  IF ~mail.headers_ok THEN Err(HashError)
  ELSE Ok(<<"headers-digest", hash_name(hash_algo), canonicalization, signed_headers,
            dkim_header.raw_bytes, mail.id>>)

\* ---------------------------------------------------------------- Signer
HEADER == "DKIM-Signature"

hash_algo_to_str(hash_algo) ==
  CASE hash_algo = "RsaSha1" -> "rsa-sha1"
    [] hash_algo = "RsaSha256" -> "rsa-sha256"
    [] hash_algo = "Ed25519Sha256" -> "ed25519-sha256"

compute_body_hash(self, mail) ==
  hash_compute_body_hash(self.body_canonicalization, None, self.hash_algo, mail)

\* leaves the configured expiry out of the header
dkim_header_builder_no_expiry(self, bh, rule, clock) ==
  LET b0 == set_signed_headers(
              add_tag(add_tag(add_tag(add_tag(add_tag(add_tag(DKIMHeaderBuilder_new,
                "v", Txt("1")),
                "a", Txt(hash_algo_to_str(self.hash_algo))),
                "d", Txt(self.signing_domain)),
                "s", Txt(self.selector)),
                "c", <<"slash", canon_to_string(self.header_canonicalization),
                                canon_to_string(self.body_canonicalization)>>),
                "bh", bh),
              self.signed_headers)
  IN IF IsSome(self.time)
     THEN Ok(set_time(b0, Unwrap(self.time)))
     ELSE Ok(set_time(b0, clock))

dkim_header_builder(self, bh, rule, clock) ==
  LET b0 == set_signed_headers(
              add_tag(add_tag(add_tag(add_tag(add_tag(add_tag(DKIMHeaderBuilder_new,
                "v", Txt("1")),
                "a", Txt(hash_algo_to_str(self.hash_algo))),
                "d", Txt(self.signing_domain)),
                "s", Txt(self.selector)),
                "c", <<"slash", canon_to_string(self.header_canonicalization),
                                canon_to_string(self.body_canonicalization)>>),
                "bh", bh),
              self.signed_headers)
      r1 == IF IsSome(self.expiry)
            THEN set_expiry(b0, Unwrap(self.expiry), rule, clock)
            ELSE Ok(b0)
  IN IF IsErr(r1) THEN r1
     ELSE IF IsSome(self.time)
          THEN Ok(set_time(r1[2], Unwrap(self.time)))
          ELSE Ok(set_time(r1[2], clock))

\* hashes the skeleton as it is, without a b tag
hash_input_header_without_b(builder_l) == header_build(builder_l)

\* the header that enters the hash: the builder's tags with b= empty
hash_input_header(builder_l) == header_build(add_tag(builder_l, "b", Txt("")))

\* canonicalizes the headers the way the body is configured
compute_header_hash_body_canon(self, mail, builder_l) ==
  LET built == hash_input_header(builder_l)
  IN IF IsErr(built) THEN built
     ELSE hash_compute_headers_hash(self.body_canonicalization,
                                    get_required_tag(built[2], "h"),
                                    self.hash_algo, built[2], mail)

compute_header_hash(self, mail, builder_l) ==
  LET built == hash_input_header(builder_l)
  IN IF IsErr(built) THEN built
     ELSE hash_compute_headers_hash(self.header_canonicalization,
                                    get_required_tag(built[2], "h"),
                                    self.hash_algo, built[2], mail)

\* rsa::RsaPrivateKey::sign with a PKCS#1 v1.5 padding over a digest
rsa_sign(key, padding, digest) ==
  IF key[2] = "kweak" THEN Err(FailedToSign)
  ELSE Ok(<<"rsa-pkcs1v15", key[2], padding, digest>>)

\* ExpandedSecretKey::sign
ed25519_sign(key, digest) == <<"ed25519", key[2], digest>>

\* the match on the key variant in sign
sign_digest(self, digest) ==
  IF self.private_key[1] = "Rsa"
  THEN IF self.hash_algo = "RsaSha1" THEN rsa_sign(self.private_key, "Sha1", digest)
       ELSE IF self.hash_algo = "RsaSha256" THEN rsa_sign(self.private_key, "Sha256", digest)
       ELSE Err(UnsupportedHashAlgorithm)
  ELSE Ok(ed25519_sign(self.private_key, digest))

\* add the signature into the DKIM header and generate the header
finalize(builder_l, sig) ==
  LET built == header_build(add_tag(builder_l, "b", B64(sig)))
  IN IF IsErr(built) THEN built
     ELSE Ok(<<HEADER, built[2].raw_bytes>>)

\* Signer::sign run alone: the five statements in sequence, `?` after each
sign(self, mail, rule, clock) ==
  LET r1 == compute_body_hash(self, mail)
  IN IF IsErr(r1) THEN r1
     ELSE LET r2 == dkim_header_builder(self, r1[2], rule, clock)
          IN IF IsErr(r2) THEN r2
             ELSE LET r3 == compute_header_hash(self, mail, r2[2])
                  IN IF IsErr(r3) THEN r3
                     ELSE LET r4 == sign_digest(self, r3[2])
                          IN IF IsErr(r4) THEN r4
                             ELSE finalize(r2[2], r4[2])

\* =================================================== the builder's calls
NothingSet ==
  [signed_headers |-> None, private_key |-> None, selector |-> None, signing_domain |-> None]

Idle == [t \in Threads |-> "idle"]
NoLocal == [t \in Threads |-> None]

WithSignedHeaders ==
  /\ IsSome(builder)
  /\ \E headers \in HeaderLists :
       LET r == with_signed_headers(Unwrap(builder), headers)
       IN /\ builder' = IF IsOk(r) THEN Some(r[2]) ELSE None
          /\ lastCall' = <<"with_signed_headers", headers>>
          /\ lastResult' = r
          /\ lastSet' = IF IsOk(r) THEN [lastSet EXCEPT !.signed_headers = Some(headers)]
                        ELSE lastSet
  /\ UNCHANGED <<signer, signVars>>

\* a setter that returns Self
Setter(after, field, value) ==
  /\ builder' = Some(after)
  /\ lastCall' = <<"setter", None>>
  /\ lastResult' = Ok(after)
  /\ lastSet' = IF field \in DOMAIN lastSet THEN [lastSet EXCEPT ![field] = Some(value)]
                ELSE lastSet
  /\ UNCHANGED <<signer, signVars>>

WithPrivateKey ==
  /\ IsSome(builder)
  /\ \E key \in Keys : Setter(with_private_key(Unwrap(builder), key), "private_key", key)

WithSelector ==
  /\ IsSome(builder)
  /\ \E value \in Selectors : Setter(with_selector(Unwrap(builder), value), "selector", value)

WithSigningDomain ==
  /\ IsSome(builder)
  /\ \E value \in Domains :
       Setter(with_signing_domain(Unwrap(builder), value), "signing_domain", value)

WithHeaderCanonicalization ==
  /\ IsSome(builder)
  /\ \E value \in CanonTypes :
       Setter(with_header_canonicalization(Unwrap(builder), value), "header_canonicalization", value)

WithBodyCanonicalization ==
  /\ IsSome(builder)
  /\ \E value \in CanonTypes :
       Setter(with_body_canonicalization(Unwrap(builder), value), "body_canonicalization", value)

WithTime ==
  /\ IsSome(builder)
  /\ \E value \in Times : Setter(with_time(Unwrap(builder), value), "time", value)

WithExpiry ==
  /\ IsSome(builder)
  /\ \E value \in Durations : Setter(with_expiry(Unwrap(builder), value), "expiry", value)

Build ==
  /\ IsSome(builder)
  /\ LET r == build(Unwrap(builder))
     IN /\ lastResult' = r
        /\ signer' = IF IsOk(r) THEN Some(r[2]) ELSE signer
  /\ builder' = None
  /\ lastCall' = <<"build", None>>
  /\ UNCHANGED <<lastSet, signVars>>

InitBuilder ==
  /\ builder = Some(SignerBuilder_new)
  /\ lastCall = <<"new", None>>
  /\ lastResult = Ok(SignerBuilder_new)
  /\ lastSet = NothingSet
  /\ signer = None
  /\ email = CHOOSE m \in Emails : m.id = "m1"
  /\ unsetTimeRule = "fail"
  /\ pc = Idle
  /\ now = NoLocal
  /\ body_hash = NoLocal
  /\ dkim_header_builder_l = NoLocal
  /\ hashed_header = NoLocal
  /\ header_hash = NoLocal
  /\ signature = NoLocal
  /\ result = NoLocal

NextBuilder ==
  \/ WithSignedHeaders
  \/ WithPrivateKey
  \/ WithSelector
  \/ WithSigningDomain
  \/ WithHeaderCanonicalization
  \/ WithBodyCanonicalization
  \/ WithTime
  \/ WithExpiry
  \/ Build

SpecBuilder == InitBuilder /\ [][NextBuilder]_vars

\* ================================================ the steps of Signer::sign
\* Each thread runs one call of sign on the shared Signer and email; a step
\* is one statement of sign, and `?` ends the call with the error.
Self == Unwrap(signer)

Fail(t, r) ==
  /\ result' = [result EXCEPT ![t] = Some(r)]
  /\ pc' = [pc EXCEPT ![t] = "done"]

\* let body_hash = self.compute_body_hash(email)?;
StepBodyHash(t) ==
  /\ pc[t] = "compute_body_hash"
  /\ LET r == compute_body_hash(Self, email)
     IN IF IsOk(r)
        THEN /\ body_hash' = [body_hash EXCEPT ![t] = Some(r[2])]
             /\ pc' = [pc EXCEPT ![t] = "dkim_header_builder"]
             /\ UNCHANGED result
        ELSE /\ Fail(t, r)
             /\ UNCHANGED body_hash
  /\ UNCHANGED <<builder, lastCall, lastResult, lastSet, signer, email, unsetTimeRule, now,
                 dkim_header_builder_l, hashed_header, header_hash, signature>>

\* keeps the clock it read in the Signer, for the calls that follow
StepHeaderBuilder_caches_time(t) ==
  /\ pc[t] = "dkim_header_builder"
  /\ \E clock \in Clocks :
       LET r == dkim_header_builder(Self, Unwrap(body_hash[t]), unsetTimeRule, clock)
       IN /\ now' = [now EXCEPT ![t] = Some(clock)]
          /\ signer' = IF IsSome(Self.time) THEN signer
                        ELSE Some([Self EXCEPT !.time = Some(clock)])
          /\ IF IsOk(r)
             THEN /\ dkim_header_builder_l' = [dkim_header_builder_l EXCEPT ![t] = Some(r[2])]
                  /\ pc' = [pc EXCEPT ![t] = "compute_header_hash"]
                  /\ UNCHANGED result
             ELSE /\ Fail(t, r)
                  /\ UNCHANGED dkim_header_builder_l
  /\ UNCHANGED <<builder, lastCall, lastResult, lastSet, email, unsetTimeRule,
                 body_hash, hashed_header, header_hash, signature>>

\* let dkim_header_builder = self.dkim_header_builder(&body_hash)?;
\* reads the wall clock
StepHeaderBuilder(t) ==
  /\ pc[t] = "dkim_header_builder"
  /\ \E clock \in Clocks :
       LET r == dkim_header_builder(Self, Unwrap(body_hash[t]), unsetTimeRule, clock)
       IN /\ now' = [now EXCEPT ![t] = Some(clock)]
          /\ IF IsOk(r)
             THEN /\ dkim_header_builder_l' = [dkim_header_builder_l EXCEPT ![t] = Some(r[2])]
                  /\ pc' = [pc EXCEPT ![t] = "compute_header_hash"]
                  /\ UNCHANGED result
             ELSE /\ Fail(t, r)
                  /\ UNCHANGED dkim_header_builder_l
  /\ UNCHANGED <<builder, lastCall, lastResult, lastSet, signer, email, unsetTimeRule,
                 body_hash, hashed_header, header_hash, signature>>

\* let header_hash = self.compute_header_hash(email, dkim_header_builder.clone())?;
StepHeaderHash(t) ==
  /\ pc[t] = "compute_header_hash"
  /\ LET built == hash_input_header(Unwrap(dkim_header_builder_l[t]))
         r == compute_header_hash(Self, email, Unwrap(dkim_header_builder_l[t]))
     IN /\ hashed_header' = [hashed_header EXCEPT ![t] =
                               IF IsOk(built) THEN Some(built[2]) ELSE None]
        /\ IF IsOk(r)
           THEN /\ header_hash' = [header_hash EXCEPT ![t] = Some(r[2])]
                /\ pc' = [pc EXCEPT ![t] = "signature"]
                /\ UNCHANGED result
           ELSE /\ Fail(t, r)
                /\ UNCHANGED header_hash
  /\ UNCHANGED <<builder, lastCall, lastResult, lastSet, signer, email, unsetTimeRule, now,
                 body_hash, dkim_header_builder_l, signature>>

\* let signature = match &self.private_key { ... };
StepSignature(t) ==
  /\ pc[t] = "signature"
  /\ LET r == sign_digest(Self, Unwrap(header_hash[t]))
     IN IF IsOk(r)
        THEN /\ signature' = [signature EXCEPT ![t] = Some(r[2])]
             /\ pc' = [pc EXCEPT ![t] = "dkim_header"]
             /\ UNCHANGED result
        ELSE /\ Fail(t, r)
             /\ UNCHANGED signature
  /\ UNCHANGED <<builder, lastCall, lastResult, lastSet, signer, email, unsetTimeRule, now,
                 body_hash, dkim_header_builder_l, hashed_header, header_hash>>

\* let dkim_header = dkim_header_builder.add_tag("b", ...).build()?;
\* Ok(format!("{}: {}", HEADER, dkim_header.raw_bytes))
StepFinalize(t) ==
  /\ pc[t] = "dkim_header"
  /\ result' = [result EXCEPT ![t] =
                  Some(finalize(Unwrap(dkim_header_builder_l[t]), Unwrap(signature[t])))]
  /\ pc' = [pc EXCEPT ![t] = "done"]
  /\ UNCHANGED <<builder, lastCall, lastResult, lastSet, signer, email, unsetTimeRule, now,
                 body_hash, dkim_header_builder_l, hashed_header, header_hash, signature>>

\* the builders whose Signer the threads share
SignLists == {<<"From">>, <<"Subject", "fRoM">>}

SignBuilders ==
  [ signed_headers : {Some(l) : l \in SignLists},
    private_key : {Some(k) : k \in Keys},
    selector : {Some("s20")},
    signing_domain : {Some("example.com")},
    expiry : {None} \cup {Some(d) : d \in Durations},
    time : {None} \cup {Some(x) : x \in Times},
    header_canonicalization : CanonTypes,
    body_canonicalization : CanonTypes ]

\* a Signer has been built and every thread has called sign(&email)
InitSign ==
  /\ builder = None
  /\ lastCall = <<"build", None>>
  /\ \E b \in SignBuilders :
       /\ lastResult = build(b)
       /\ signer = Some(build(b)[2])
       /\ lastSet = [f \in DOMAIN NothingSet |-> b[f]]
  /\ email \in Emails
  /\ unsetTimeRule \in {"fail", "wallclock"}
  /\ pc = [t \in Threads |-> "compute_body_hash"]
  /\ now = NoLocal
  /\ body_hash = NoLocal
  /\ dkim_header_builder_l = NoLocal
  /\ hashed_header = NoLocal
  /\ header_hash = NoLocal
  /\ signature = NoLocal
  /\ result = NoLocal

NextSign ==
  \E t \in Threads :
    \/ StepBodyHash(t)
    \/ StepHeaderBuilder(t)
    \/ StepHeaderHash(t)
    \/ StepSignature(t)
    \/ StepFinalize(t)

SpecSign == InitSign /\ [][NextSign]_vars

\* ================================================================ claims
Done(t) == pc[t] = "done"
Returned(t) == Unwrap(result[t])
ReturnedHeader(t) == Done(t) /\ IsOk(Returned(t))
\* the tag list of the header string a call returned
Emitted(t) == Returned(t)[2][2]
TagNames(raw) == [i \in 1..Len(raw) |-> raw[i][1]]
RawValue(raw, name) == raw[CHOOSE i \in 1..Len(raw) : raw[i][1] = name][2]
\* the instant a call signs at: the configured time, else the clock it read
SignTime(t) == IF IsSome(Self.time) THEN Unwrap(Self.time) ELSE Unwrap(now[t])

\* C1: every header string sign returns carries the tags v, a, d, s, c, bh,
\* h, t, [x,] b in this order, each once, v=1 first and b last; x is there
\* exactly when an expiry is configured, after t and before b.
C1_TagOrder ==
  \A t \in Threads :
    ReturnedHeader(t) =>
      /\ TagNames(Emitted(t)) =
           IF IsSome(Self.expiry)
           THEN <<"v", "a", "d", "s", "c", "bh", "h", "t", "x", "b">>
           ELSE <<"v", "a", "d", "s", "c", "bh", "h", "t", "b">>
      /\ Emitted(t)[1] = <<"v", Txt("1")>>

C1_Witness ==
  \E t \in Threads :
    /\ ReturnedHeader(t)
    /\ IsSome(Self.expiry)
    /\ TagNames(Emitted(t))[9] = "x"

\* C2: two calls of sign on one Signer with an explicit time and one email
\* return the same value whatever the clock each of them read.  (Holds when
\* unsetTimeRule = "fail", fails when it is "wallclock" and an expiry is set.)
C2_Determinism ==
  ((\A t \in Threads : Done(t)) /\ IsSome(Self.time)) => result["t1"] = result["t2"]

\* C5 (as claimed): once build has returned a Signer, no call of sign ends
\* in a configuration error.
C5_NoConfigurationErrorInSign ==
  \A t \in Threads :
    (IsOk(lastResult) /\ Done(t)) => Returned(t) # Err(BuilderError)

\* C6 (as claimed): with a positive expiry d configured that does not
\* overflow, sign does not reject the expiry, and the header it returns has
\* t = Unix seconds of the signing time and x = Unix seconds of that time + d.
C6_ExpiryFromSigningTime ==
  \A t \in Threads :
    (/\ Done(t)
     /\ IsSome(Self.expiry)
     /\ IsSome(now[t])
     /\ Unwrap(Self.expiry) > 0
     /\ SignTime(t) + Unwrap(Self.expiry) <= MaxTick)
    => /\ Returned(t) # Err(BuilderError)
       /\ IsOk(Returned(t)) =>
            /\ RawValue(Emitted(t), "t") = Num(SignTime(t) \div TicksPerSecond)
            /\ RawValue(Emitted(t), "x") =
                 Num((SignTime(t) + Unwrap(Self.expiry)) \div TicksPerSecond)

\* C7: the DKIM-Signature header that enters the header hash has b present
\* and empty and otherwise the tags and values of the header returned; the
\* two differ only in the value of b.
C7_EmptyB ==
  \A t \in Threads :
    ReturnedHeader(t) =>
      /\ IsSome(hashed_header[t])
      /\ LET hashed == Unwrap(hashed_header[t]).raw_bytes
             emitted == Emitted(t)
         IN /\ Unwrap(header_hash[t])[5] = hashed
            /\ TagNames(hashed) = TagNames(emitted)
            /\ \A i \in 1..Len(hashed) :
                 IF hashed[i][1] = "b"
                 THEN /\ hashed[i][2] = Txt("")
                      /\ emitted[i][2] = B64(Unwrap(signature[t]))
                 ELSE hashed[i] = emitted[i]
            /\ \E i \in 1..Len(hashed) : hashed[i][1] = "b"

C7_Witness ==
  \E t \in Threads :
    /\ ReturnedHeader(t)
    /\ RawValue(Unwrap(hashed_header[t]).raw_bytes, "b") = Txt("")
    /\ RawValue(Emitted(t), "b") # Txt("")

\* C8: the Signer build returns has hash_algo rsa-sha256 exactly for an RSA
\* key and ed25519-sha256 exactly for an Ed25519 key, never rsa-sha1; the
\* a= tag names that algorithm and sign never ends unsupported-algorithm.
C8_AlgorithmFromKey ==
  /\ (Self.hash_algo = "RsaSha256") <=> (Self.private_key[1] = "Rsa")
  /\ (Self.hash_algo = "Ed25519Sha256") <=> (Self.private_key[1] = "Ed25519")
  /\ Self.hash_algo # "RsaSha1"
  /\ \A t \in Threads :
       /\ Done(t) => Returned(t) # Err(UnsupportedHashAlgorithm)
       /\ ReturnedHeader(t) =>
            RawValue(Emitted(t), "a") =
              Txt(IF Self.private_key[1] = "Rsa" THEN "rsa-sha256" ELSE "ed25519-sha256")

C8_Witness ==
  \E t \in Threads :
    /\ ReturnedHeader(t)
    /\ Self.private_key[1] = "Ed25519"
    /\ RawValue(Emitted(t), "a") = Txt("ed25519-sha256")

\* C9: no step of sign writes the Signer or the email, and under every
\* interleaving each call returns what sign returns when run alone with the
\* clock value the call read.
C9_ThreadSafe ==
  /\ [](\A t \in Threads :
          Done(t) =>
            IF IsSome(now[t])
            THEN Returned(t) = sign(Self, email, unsetTimeRule, Unwrap(now[t]))
            ELSE \A clock \in Clocks : Returned(t) = sign(Self, email, unsetTimeRule, clock))
  /\ [][signer' = signer /\ email' = email]_vars

C9_Witness ==
  /\ ReturnedHeader("t1")
  /\ pc["t2"] = "signature"
  /\ now["t1"] # now["t2"]

\* C10: the steps run in the order body hash, header skeleton, header hash,
\* signature, final header, each on the output of the one before: bh is the
\* body hash of this call under the body canonicalization, the header hash
\* covers the skeleton with that bh under the header canonicalization, the
\* signature covers that header hash and b is its base64; a failed step ends
\* the call with the error and nothing after it has run.
StepsRun(t) ==
  <<IsSome(body_hash[t]), IsSome(dkim_header_builder_l[t]), IsSome(header_hash[t]),
    IsSome(signature[t]), result[t] # None /\ IsOk(Returned(t))>>

C10_Pipeline ==
  \A t \in Threads :
    /\ \A i \in 1..4 : StepsRun(t)[i + 1] => StepsRun(t)[i]
    /\ (IsSome(hashed_header[t]) /\ ~IsSome(header_hash[t])) => IsSome(dkim_header_builder_l[t])
    /\ (Done(t) /\ IsErr(Returned(t))) =>
         \/ /\ Returned(t) = Err(HashError)
            /\ ~StepsRun(t)[1] /\ now[t] = None
         \/ /\ Returned(t) = Err(BuilderError)
            /\ StepsRun(t)[1] /\ ~StepsRun(t)[2] /\ hashed_header[t] = None
         \/ /\ Returned(t) = Err(HashError)
            /\ StepsRun(t)[2] /\ ~StepsRun(t)[3]
         \/ /\ Returned(t) = Err(FailedToSign)
            /\ StepsRun(t)[3] /\ ~StepsRun(t)[4]
    /\ IsSome(body_hash[t]) =>
         Unwrap(body_hash[t]) =
           B64(<<"body-digest", "sha256", Self.body_canonicalization, None, email.id>>)
    /\ IsSome(dkim_header_builder_l[t]) =>
         TagValue(Unwrap(dkim_header_builder_l[t]).tags, "bh") = Unwrap(body_hash[t])
    /\ IsSome(header_hash[t]) =>
         LET hh == Unwrap(header_hash[t])
         IN /\ hh[1] = "headers-digest"
            /\ hh[3] = Self.header_canonicalization
            /\ hh[5] = Unwrap(hashed_header[t]).raw_bytes
            /\ RawValue(hh[5], "bh") = Unwrap(body_hash[t])
            /\ hh[6] = email.id
    /\ IsSome(signature[t]) =>
         LET sig == Unwrap(signature[t])
         IN sig[Len(sig)] = Unwrap(header_hash[t])
    /\ ReturnedHeader(t) =>
         /\ RawValue(Emitted(t), "bh") = Unwrap(body_hash[t])
         /\ RawValue(Emitted(t), "b") = B64(Unwrap(signature[t]))

C10_Witness ==
  /\ ReturnedHeader("t1")
  /\ Self.header_canonicalization # Self.body_canonicalization
  /\ Done("t2")

C10_WitnessFailure ==
  \E t \in Threads :
    /\ Done(t)
    /\ Returned(t) = Err(FailedToSign)
    /\ IsSome(header_hash[t])

\* C3: no Signer is ever obtained whose signed_headers has no spelling of
\* "From"; with_signed_headers rejects every list without one and records
\* nothing, and accepts and records every list that has one anywhere.
FromSpellings == {"From", "from", "FROM", "fRoM", "FRom", "froM"}
ContainsFrom(headers) == \E i \in 1..Len(headers) : headers[i] \in FromSpellings

C3_FromRequired ==
  /\ IsSome(signer) => ContainsFrom(Self.signed_headers)
  /\ IsSome(builder) /\ IsSome(Unwrap(builder).signed_headers) =>
       ContainsFrom(Unwrap(Unwrap(builder).signed_headers))
  /\ lastCall[1] = "with_signed_headers" =>
       IF ContainsFrom(lastCall[2])
       THEN /\ IsOk(lastResult)
            /\ IsSome(builder)
            /\ Unwrap(builder).signed_headers = Some(lastCall[2])
       ELSE /\ lastResult = Err(BuilderError)
            /\ builder = None

C3_Witness ==
  /\ IsSome(signer)
  /\ Self.signed_headers = <<"Subject", "fRoM">>

C3_WitnessRejected ==
  /\ lastCall = <<"with_signed_headers", <<"Subject", "Subject">>>>
  /\ IsErr(lastResult)

\* C4: build returns a configuration error and no Signer when any of
\* private_key, signed_headers, selector, signing_domain was never set; and
\* otherwise a Signer with the last value set for each of them.
RequiredFields == {"private_key", "signed_headers", "selector", "signing_domain"}

C4_WitnessMissing ==
  /\ lastCall[1] = "build"
  /\ IsErr(lastResult)
  /\ lastSet.selector = None
  /\ IsSome(lastSet.private_key) /\ IsSome(lastSet.signed_headers) /\ IsSome(lastSet.signing_domain)

====
